---- MODULE Spec2Model ----
(***************************************************************************)
(* Model of bgpd.                                                          *)
(*                                                                         *)
(* Spec: the BGP peer session engine (src/src/fsm/peer.rs): the            *)
(* per-neighbor finite-state machine fsm(), its timers, the connect,       *)
(* reader and writer tasks, the send channel into the writer and the       *)
(* daemon mailbox that serialises all events of the peer.                  *)
(*                                                                         *)
(* SpecStore: the configuration manager (src/zebra/src/config/manager.rs)  *)
(* with its running and candidate trees, the command parser it calls       *)
(* (src/zebra/src/config/parse.rs) and the channels to its subscribers.    *)
(*                                                                         *)
(* SpecReader: the reader task peer_read of a session, from the bytes of   *)
(* its socket to the events it posts.                                      *)
(*                                                                         *)
(* SpecParser: the command parser call by call: Match::process on its      *)
(* candidates and parse() from a request line to its result.               *)
(***************************************************************************)
EXTENDS Integers, Sequences, FiniteSets, TLC

\* ------------------------------------------------------------------------
\* Bounds of the model
\* ------------------------------------------------------------------------
\* events waiting in the daemon mailbox (tx of Peer, unbounded in the source)
MaxQueue == 2
\* messages waiting in the send channel into the writer (unbounded in the source)
MaxChan == 3
\* messages of the current socket that the model remembers as written
MaxWire == 2
\* subscribers of the configuration manager (cm_txes)
MaxSubs == 2
\* frames the neighbor sends on one socket
MaxFrames == 2
\* reads of one socket that return an error
MaxReadErrs == 1
\* candidates fed to one Match
MaxCands == 3
\* calls of parse() for one request line
MaxCalls == 8

\* ------------------------------------------------------------------------
\* Program constants
\* ------------------------------------------------------------------------
IdleHoldTime == 5
ConnectRetryTime == 5
KeepaliveTime == 30
HoldTime == 180
U16 == 65536

\* enum State
States == {"Idle", "Connect", "Active", "OpenSent", "OpenConfirm", "Established"}

\* enum Event (the payload of Connected, a socket, carries no data of its own)
EventTypes == {"Start", "Stop", "ConnRetryTimerExpires", "HoldTimerExpires",
               "KeepaliveTimerExpires", "IdleHoldTimerExpires", "Connected",
               "ConnFail", "BGPOpen", "NotifMsg", "KeepAliveMsg", "UpdateMsg"}

Ev(t) == [type |-> t]
BGPOpenEv(asn, id) == [type |-> "BGPOpen", asn |-> asn, bgp_id |-> id]

\* Peer.address and Peer.router_id as octets
address == <<10, 0, 0, 2>>
router_id == <<1, 1, 1, 1>>

\* The configurations a peer is created with (Peer::new's local_as, peer_as)
Configs == {[local_as |-> 65001, peer_as |-> 65002],
            [local_as |-> 65537, peer_as |-> 65538]}

\* ------------------------------------------------------------------------
\* Timer service: Option<Timer> as a record; kind "None" is Option::None
\* ------------------------------------------------------------------------
NoTimer == [kind |-> "None", duration |-> 0, remaining |-> 0, live |-> FALSE, event |-> "None"]

\* Timer::new(duration, kind, callback posting `event`)
TimerNew(d, k, e) == [kind |-> k, duration |-> d, remaining |-> d, live |-> TRUE, event |-> e]

\* Timer::refresh: the remaining time becomes the original duration
TimerRefresh(t) == IF t.live THEN [t EXCEPT !.remaining = t.duration] ELSE t

\* expiry: a Once timer is spent, an Infinite timer re-arms itself
TimerExpired(t) == IF t.kind = "Infinite" THEN [t EXCEPT !.remaining = t.duration]
                   ELSE [t EXCEPT !.live = FALSE]

TimerNames == {"idle_hold_timer", "connect_retry", "hold_timer", "keepalive"}

Armed(t) == t.live

VARIABLES
    state,       \* Peer.state
    task,        \* Peer.task: connect, reader, writer
    timer,       \* Peer.timer: idle_hold_timer, connect_retry, hold_timer, keepalive
    packet_tx,   \* Peer.packet_tx is Some
    packet_rx,   \* messages in the send channel, not yet taken by the writer
    wire,        \* first messages the writer wrote to the socket it holds
    mailbox,     \* events posted to the daemon (Peer.tx), in order
    local_as,    \* Peer.local_as
    peer_as,     \* Peer.peer_as
    sends,       \* messages fsm() passed to packet_tx.send in its last call
    prev_state,  \* prev_state of the last call of fsm()
    last_event,  \* the event of the last call of fsm()
    panicked     \* the daemon loop panicked (unwrap of a None packet_tx)

vars == <<state, task, timer, packet_tx, packet_rx, wire, mailbox, local_as,
          peer_as, sends, prev_state, last_event, panicked>>

\* the peer as fsm() sees it, with the channel ends it writes to
Ctx == [state |-> state, task |-> task, timer |-> timer, packet_tx |-> packet_tx,
        packet_rx |-> packet_rx, wire |-> wire, sends |-> sends,
        panicked |-> panicked, local_as |-> local_as, peer_as |-> peer_as]

\* the configuration manager
VARIABLES
    running,     \* ConfigStore.running: the paths of the running tree
    candidate,   \* ConfigStore.candidate: the paths of the candidate tree
    shared,      \* running and candidate are the same Rc<Config>
    cm_rx,       \* per subscriber, the lines sent to it and not yet received
    resp,        \* the response of the last Execute / Completion request
    hist         \* the last commits and discards in a row, each with the trees it started from

store_vars == <<running, candidate, shared, cm_rx, resp, hist>>

NoResp == [code |-> "None", output |-> <<>>]

\* ConfigStore::new and ConfigManager::new: two separate empty trees
StoreNew ==
    /\ running = {}
    /\ candidate = {}
    /\ shared = FALSE
    /\ resp = NoResp
    /\ hist = <<>>

\* the reader task of one session and its socket
VARIABLES
    rd           \* peer_read: the frames the neighbor sends, the bytes that have arrived,
                 \* buf, the events posted to tx, the state of the task, the failed reads

reader_vars == <<rd>>

\* no session: nothing is sent and no reader runs
ReaderNone == rd = [frames |-> <<>>, arrived |-> 0, buf |-> <<>>, posted |-> <<>>,
                    task |-> "None", errs |-> 0]

\* the parser at work on one request line, or one Match fed with candidates
VARIABLES
    pc           \* the arguments of the call of parse() under way and what the last
                 \* call matched and returned; or a Match and the candidates fed to it

parser_vars == <<pc>>

ParserIdle == pc = [code |-> "Idle"]

\* ------------------------------------------------------------------------
\* Helpers of the FSM
\* ------------------------------------------------------------------------
is_passive == FALSE

peer_start_idle_hold_timer == TimerNew(IdleHoldTime, "Once", "Start")

peer_start_connect_timer == TimerNew(ConnectRetryTime, "Once", "Start")

peer_start_keepalive == TimerNew(KeepaliveTime, "Infinite", "KeepaliveTimerExpires")

peer_start_holdtimer == TimerNew(HoldTime, "Infinite", "HoldTimerExpires")

\* Task::spawn of the connect task
peer_start_connection == "Running"

\* Task::spawn of peer_read
peer_start_reader == "Running"

\* Task::spawn of the writer loop
peer_start_writer == "Running"

\* packet_tx.as_ref().unwrap().send(bytes): panics on None; the result of send
\* is ignored, and the message is lost when the receiving writer is gone
PacketSend(c, msg) ==
    IF ~c.packet_tx THEN [c EXCEPT !.panicked = TRUE]
    ELSE [c EXCEPT !.sends = Append(@, msg),
                   !.packet_rx = IF c.task.writer = "Running" THEN Append(@, msg) ELSE @]

\* OpenPacket::new(header, peer.local_as as u16, &peer.router_id)
peer_send_open(c) ==
    PacketSend(c, [type |-> "Open", asn |-> c.local_as % U16, bgp_id |-> router_id])

peer_send_keepalive(c) == PacketSend(c, [type |-> "Keepalive"])

peer_refresh_holdtimer(c) ==
    IF c.timer.hold_timer.kind # "None"
    THEN [c EXCEPT !.timer.hold_timer = TimerRefresh(@)]
    ELSE c

\* ------------------------------------------------------------------------
\* Event handlers; each returns the peer with the state that fsm() assigns
\* ------------------------------------------------------------------------
fsm_init(c) ==
    [(IF ~is_passive
      THEN [c EXCEPT !.timer.idle_hold_timer = peer_start_idle_hold_timer]
      ELSE c) EXCEPT !.state = "Idle"]

fsm_start(c) ==
    [c EXCEPT !.task.connect = peer_start_connection, !.state = "Connect"]

\* fsm_stop without its call of fsm_init
fsm_stop_no_rearm(c) ==
    [c EXCEPT !.task.writer = "None",
              !.task.reader = "None",
              !.packet_rx = <<>>,
              !.wire = <<>>,
              !.timer.idle_hold_timer = NoTimer,
              !.timer.connect_retry = NoTimer,
              !.timer.keepalive = NoTimer,
              !.timer.hold_timer = NoTimer,
              !.state = "Idle"]

\* fsm_stop that leaves the hold timer as it is
fsm_stop_keep_hold(c) ==
    fsm_init([c EXCEPT !.task.writer = "None",
                       !.task.reader = "None",
                       !.packet_rx = <<>>,
                       !.wire = <<>>,
                       !.timer.idle_hold_timer = NoTimer,
                       !.timer.connect_retry = NoTimer,
                       !.timer.keepalive = NoTimer])

fsm_stop(c) ==
    fsm_init([c EXCEPT !.task.writer = "None",
                       !.task.reader = "None",
                       !.packet_rx = <<>>,
                       !.wire = <<>>,
                       !.timer.idle_hold_timer = NoTimer,
                       !.timer.connect_retry = NoTimer,
                       !.timer.keepalive = NoTimer,
                       !.timer.hold_timer = NoTimer])

\* fsm_bgp_open without the comparison of the BGP identifier
fsm_bgp_open_skip_id(c, packet) ==
    IF c.state # "OpenSent" THEN [c EXCEPT !.state = "Idle"]
    ELSE IF packet.asn # c.peer_as THEN [c EXCEPT !.state = "Idle"]
    ELSE [c EXCEPT !.timer.keepalive = peer_start_keepalive,
                   !.timer.hold_timer = peer_start_holdtimer,
                   !.state = "Established"]

fsm_bgp_open(c, packet) ==
    IF c.state # "OpenSent" THEN [c EXCEPT !.state = "Idle"]
    ELSE IF packet.asn # c.peer_as THEN [c EXCEPT !.state = "Idle"]
    ELSE IF packet.bgp_id # address THEN [c EXCEPT !.state = "Idle"]
    ELSE [c EXCEPT !.timer.keepalive = peer_start_keepalive,
                   !.timer.hold_timer = peer_start_holdtimer,
                   !.state = "Established"]

fsm_bgp_notification(c) == [c EXCEPT !.state = "Idle"]

\* fsm_bgp_keepalive without the refresh of the hold timer
fsm_bgp_keepalive_no_refresh(c) == [c EXCEPT !.state = "Established"]

fsm_bgp_keepalive(c) == [peer_refresh_holdtimer(c) EXCEPT !.state = "Established"]

fsm_bgp_update(c) == [peer_refresh_holdtimer(c) EXCEPT !.state = "Established"]

\* fsm_connected that creates no send channel
fsm_connected_no_channel(c) ==
    LET c1 == [c EXCEPT !.task.connect = "None",
                        !.packet_rx = <<>>,
                        !.wire = <<>>,
                        !.task.reader = peer_start_reader,
                        !.task.writer = peer_start_writer]
        c2 == peer_send_open(c1)
        c3 == IF c2.panicked THEN c2 ELSE peer_send_keepalive(c2)
    IN IF c3.panicked THEN c3 ELSE [c3 EXCEPT !.state = "OpenSent"]

\* fsm_connected with the Keepalive enqueued before the Open
fsm_connected_keepalive_first(c) ==
    LET c1 == [c EXCEPT !.task.connect = "None",
                        !.packet_tx = TRUE,
                        !.packet_rx = <<>>,
                        !.wire = <<>>,
                        !.task.reader = peer_start_reader,
                        !.task.writer = peer_start_writer]
        c2 == peer_send_keepalive(c1)
        c3 == IF c2.panicked THEN c2 ELSE peer_send_open(c2)
    IN IF c3.panicked THEN c3 ELSE [c3 EXCEPT !.state = "OpenSent"]

fsm_connected(c) ==
    LET c1 == [c EXCEPT !.task.connect = "None",
                        !.packet_tx = TRUE,
                        !.packet_rx = <<>>,
                        !.wire = <<>>,
                        !.task.reader = peer_start_reader,
                        !.task.writer = peer_start_writer]
        c2 == peer_send_open(c1)
        c3 == IF c2.panicked THEN c2 ELSE peer_send_keepalive(c2)
    IN IF c3.panicked THEN c3 ELSE [c3 EXCEPT !.state = "OpenSent"]

fsm_conn_retry_expires(c) ==
    [c EXCEPT !.task.connect = peer_start_connection, !.state = "Connect"]

fsm_holdtimer_expires(c) == [c EXCEPT !.state = "Idle"]

fsm_idle_hold_timer_expires(c) ==
    [c EXCEPT !.timer.idle_hold_timer = NoTimer,
              !.task.connect = peer_start_connection,
              !.state = "Connect"]

fsm_keepalive_expires(c) ==
    LET c1 == peer_send_keepalive(c)
    IN IF c1.panicked THEN c1 ELSE [c1 EXCEPT !.state = "Established"]

\* fsm_conn_fail that also cancels the keepalive timer
fsm_conn_fail_drop_keepalive(c) ==
    [c EXCEPT !.task.writer = "None",
              !.task.reader = "None",
              !.packet_rx = <<>>,
              !.wire = <<>>,
              !.timer.keepalive = NoTimer,
              !.state = "Active"]

fsm_conn_fail(c) ==
    [c EXCEPT !.task.writer = "None",
              !.task.reader = "None",
              !.packet_rx = <<>>,
              !.wire = <<>>,
              !.state = "Active"]

\* the match of fsm()
fsm_dispatch(c, event) ==
    CASE event.type = "Start" -> fsm_start(c)
      [] event.type = "Stop" -> fsm_stop(c)
      [] event.type = "ConnRetryTimerExpires" -> fsm_conn_retry_expires(c)
      [] event.type = "HoldTimerExpires" -> fsm_holdtimer_expires(c)
      [] event.type = "KeepaliveTimerExpires" -> fsm_keepalive_expires(c)
      [] event.type = "IdleHoldTimerExpires" -> fsm_idle_hold_timer_expires(c)
      [] event.type = "Connected" -> fsm_connected(c)
      [] event.type = "ConnFail" -> fsm_conn_fail(c)
      [] event.type = "BGPOpen" -> fsm_bgp_open(c, event)
      [] event.type = "NotifMsg" -> fsm_bgp_notification(c)
      [] event.type = "KeepAliveMsg" -> fsm_bgp_keepalive(c)
      [] event.type = "UpdateMsg" -> fsm_bgp_update(c)

fsm(c, event) ==
    LET r == fsm_dispatch([c EXCEPT !.sends = <<>>], event)
    IN IF r.panicked THEN r
       ELSE IF c.state # "Idle" /\ r.state = "Idle" THEN fsm_stop(r)
       ELSE r

\* ------------------------------------------------------------------------
\* Initial state: Peer::new, nothing posted yet
\* ------------------------------------------------------------------------
PeerNew(cfg) ==
    fsm_init([state |-> "Idle",
              task |-> [connect |-> "None", reader |-> "None", writer |-> "None"],
              timer |-> [idle_hold_timer |-> NoTimer, connect_retry |-> NoTimer,
                         hold_timer |-> NoTimer, keepalive |-> NoTimer],
              packet_tx |-> FALSE, packet_rx |-> <<>>, wire |-> <<>>,
              sends |-> <<>>, panicked |-> FALSE,
              local_as |-> cfg.local_as, peer_as |-> cfg.peer_as])

PeerInit(cfg) ==
    LET p == PeerNew(cfg) IN
    /\ state = p.state
    /\ task = p.task
    /\ timer = p.timer
    /\ packet_tx = p.packet_tx
    /\ packet_rx = p.packet_rx
    /\ wire = p.wire
    /\ local_as = p.local_as
    /\ peer_as = p.peer_as
    /\ sends = p.sends
    /\ panicked = p.panicked
    /\ mailbox = <<>>
    /\ prev_state = "Idle"
    /\ last_event = Ev("None")

\* the configuration manager has its one subscriber (main.rs) and serves no
\* request while the peer runs
Init ==
    /\ \E cfg \in Configs : PeerInit(cfg)
    /\ StoreNew
    /\ cm_rx = << <<>> >>
    /\ ReaderNone
    /\ ParserIdle

\* ------------------------------------------------------------------------
\* Actions
\* ------------------------------------------------------------------------
Room == Len(mailbox) < MaxQueue

Post(e) == mailbox' = Append(mailbox, e)

\* the daemon loop takes the next event of the peer and runs fsm()
HandleEvent ==
    /\ ~panicked
    /\ UNCHANGED <<store_vars, reader_vars, parser_vars>>
    /\ mailbox # <<>>
    /\ Len(packet_rx) + 2 <= MaxChan
    /\ LET e == Head(mailbox)
           r == fsm(Ctx, e)
       IN /\ state' = r.state
          /\ task' = r.task
          /\ timer' = r.timer
          /\ packet_tx' = r.packet_tx
          /\ packet_rx' = r.packet_rx
          /\ wire' = r.wire
          /\ sends' = r.sends
          /\ panicked' = r.panicked
          /\ prev_state' = state
          /\ last_event' = e
    /\ mailbox' = Tail(mailbox)
    /\ UNCHANGED <<local_as, peer_as>>

\* configuration removal posts Stop through Peer::event
PostStop ==
    /\ ~panicked
    /\ UNCHANGED <<store_vars, reader_vars, parser_vars>>
    /\ Room
    /\ Post(Ev("Stop"))
    /\ UNCHANGED <<state, task, timer, packet_tx, packet_rx, wire, local_as,
                   peer_as, sends, prev_state, last_event, panicked>>

\* the connect task: TcpStream::connect succeeded
ConnectOk ==
    /\ ~panicked
    /\ UNCHANGED <<store_vars, reader_vars, parser_vars>>
    /\ task.connect = "Running"
    /\ Room
    /\ Post(Ev("Connected"))
    /\ task' = [task EXCEPT !.connect = "Done"]
    /\ UNCHANGED <<state, timer, packet_tx, packet_rx, wire, local_as,
                   peer_as, sends, prev_state, last_event, panicked>>

\* the connect task: TcpStream::connect failed
ConnectErr ==
    /\ ~panicked
    /\ UNCHANGED <<store_vars, reader_vars, parser_vars>>
    /\ task.connect = "Running"
    /\ Room
    /\ Post(Ev("ConnFail"))
    /\ task' = [task EXCEPT !.connect = "Done"]
    /\ UNCHANGED <<state, timer, packet_tx, packet_rx, wire, local_as,
                   peer_as, sends, prev_state, last_event, panicked>>

\* the packets the neighbor may send: an Open with the ASN and identifier the
\* peer is configured with (as far as 16 bits can carry the ASN), an Open with
\* another ASN, an Open with another identifier, and the three other messages
OpenAsns == {peer_as % U16, (peer_as + 1) % U16}
OpenIds == {address, router_id}
Packets == {BGPOpenEv(a, address) : a \in OpenAsns}
             \cup {BGPOpenEv(peer_as % U16, i) : i \in OpenIds}
             \cup {Ev("KeepAliveMsg"), Ev("NotifMsg"), Ev("UpdateMsg")}

\* peer_read: a whole frame is in the buffer; peer_packet_parse posts its event
ReaderPacket ==
    /\ ~panicked
    /\ UNCHANGED <<store_vars, reader_vars, parser_vars>>
    /\ task.reader = "Running"
    /\ Room
    /\ \E pkt \in Packets : Post(pkt)
    /\ UNCHANGED <<state, task, timer, packet_tx, packet_rx, wire, local_as,
                   peer_as, sends, prev_state, last_event, panicked>>

\* peer_read: read_len == 0, post ConnFail and return
ReaderEof ==
    /\ ~panicked
    /\ UNCHANGED <<store_vars, reader_vars, parser_vars>>
    /\ task.reader = "Running"
    /\ Room
    /\ Post(Ev("ConnFail"))
    /\ task' = [task EXCEPT !.reader = "Done"]
    /\ UNCHANGED <<state, timer, packet_tx, packet_rx, wire, local_as,
                   peer_as, sends, prev_state, last_event, panicked>>

\* peer_read: read_buf returned Err, post ConnFail and go round the loop
ReaderErr ==
    /\ ~panicked
    /\ UNCHANGED <<store_vars, reader_vars, parser_vars>>
    /\ task.reader = "Running"
    /\ Room
    /\ Post(Ev("ConnFail"))
    /\ UNCHANGED <<state, task, timer, packet_tx, packet_rx, wire, local_as,
                   peer_as, sends, prev_state, last_event, panicked>>

\* the writer takes the next message of the channel and writes it to the socket
WriterWrite ==
    /\ ~panicked
    /\ UNCHANGED <<store_vars, reader_vars, parser_vars>>
    /\ task.writer = "Running"
    /\ packet_rx # <<>>
    /\ packet_rx' = Tail(packet_rx)
    /\ wire' = IF Len(wire) < MaxWire THEN Append(wire, Head(packet_rx)) ELSE wire
    /\ UNCHANGED <<state, task, timer, packet_tx, mailbox, local_as,
                   peer_as, sends, prev_state, last_event, panicked>>

\* a timer whose time is up runs its callback, which posts its event
TimerExpire ==
    /\ ~panicked
    /\ UNCHANGED <<store_vars, reader_vars, parser_vars>>
    /\ Room
    /\ \E n \in TimerNames :
          /\ Armed(timer[n])
          /\ timer[n].remaining = 0
          /\ Post(Ev(timer[n].event))
          /\ timer' = [timer EXCEPT ![n] = TimerExpired(@)]
    /\ UNCHANGED <<state, task, packet_tx, packet_rx, wire, local_as,
                   peer_as, sends, prev_state, last_event, panicked>>

\* time passes up to the next deadline of an armed timer
ArmedTimers == {n \in TimerNames : Armed(timer[n])}

Min(S) == CHOOSE x \in S : \A y \in S : x <= y

NextDeadline == Min({timer[n].remaining : n \in ArmedTimers})

Tick ==
    /\ ~panicked
    /\ UNCHANGED <<store_vars, reader_vars, parser_vars>>
    /\ ArmedTimers # {}
    /\ NextDeadline > 0
    /\ timer' = [n \in TimerNames |->
                    IF Armed(timer[n])
                    THEN [timer[n] EXCEPT !.remaining = @ - NextDeadline]
                    ELSE timer[n]]
    /\ UNCHANGED <<state, task, packet_tx, packet_rx, wire, mailbox, local_as,
                   peer_as, sends, prev_state, last_event, panicked>>

Next ==
    \/ HandleEvent
    \/ PostStop
    \/ ConnectOk
    \/ ConnectErr
    \/ ReaderPacket
    \/ ReaderEof
    \/ ReaderErr
    \/ WriterWrite
    \/ TimerExpire
    \/ Tick

all_vars == <<vars, store_vars, reader_vars, parser_vars>>

Spec == Init /\ [][Next]_all_vars

\* Scheduling of the peer: the daemon loop takes every event it is sent, the
\* writer takes every message of its channel, time passes, and a timer whose
\* time is up posts its event (the mailbox of the source is unbounded: the
\* callback is never kept waiting for room)
SpecFair ==
    /\ Init
    /\ [][Next]_all_vars
    /\ WF_all_vars(HandleEvent)
    /\ WF_all_vars(WriterWrite)
    /\ WF_all_vars(Tick)
    /\ SF_all_vars(TimerExpire)

TypeOK ==
    /\ state \in States
    /\ task.connect \in {"None", "Running", "Done"}
    /\ task.reader \in {"None", "Running", "Done"}
    /\ task.writer \in {"None", "Running"}
    /\ packet_tx \in BOOLEAN
    /\ Len(mailbox) <= MaxQueue
    /\ Len(packet_rx) <= MaxChan
    /\ Len(wire) <= MaxWire

\* ------------------------------------------------------------------------
\* The reader task (peer_read) and the frames of the BGP wire format
\* ------------------------------------------------------------------------
BGP_PACKET_HEADER_LEN == 19

\* the 16 bytes of the marker
Marker == [i \in 1..16 |-> 255]

\* a frame: marker, length (2 bytes, big-endian), type, body
BgpFrame(type, body) ==
    Marker \o <<(BGP_PACKET_HEADER_LEN + Len(body)) \div 256,
                (BGP_PACKET_HEADER_LEN + Len(body)) % 256, type>> \o body

\* the frames of the neighbor: an Open (version 4, ASN 65002, hold time 180,
\* identifier 10.0.0.2, no optional parameter), an Update without routes, a
\* Notification (cease) and a Keepalive
Frames == {BgpFrame(1, <<4, 253, 234, 0, 180, 10, 0, 0, 2, 0>>),
           BgpFrame(2, <<0, 0, 0, 0>>),
           BgpFrame(3, <<6, 2>>),
           BgpFrame(4, <<>>)}

FrameSeqs == UNION {[1..n -> Frames] : n \in 1..MaxFrames}

RECURSIVE Stream(_)
\* the bytes of the frames, one after the other
Stream(frames) == IF frames = <<>> THEN <<>> ELSE Head(frames) \o Stream(Tail(frames))

\* peek_bgp_length: the length field at offset 16
peek_bgp_length(b) == b[17] * 256 + b[18]

\* the event of a packet type
PacketEvent(type) ==
    CASE type = 1 -> "BGPOpen"
      [] type = 2 -> "UpdateMsg"
      [] type = 3 -> "NotifMsg"
      [] type = 4 -> "KeepAliveMsg"

\* the first n bytes of b, all of b when it is shorter
Take(b, n) == SubSeq(b, 1, IF n <= Len(b) THEN n ELSE Len(b))

\* parse_bgp_packet: the packet in the first bytes of rx, as long as its
\* length field says
parse_bgp_packet(rx) == [type |-> rx[19], bytes |-> Take(rx, peek_bgp_length(rx))]

\* peer_packet_parse: the event tx.send is called with
peer_packet_parse(rx) ==
    [type |-> PacketEvent(parse_bgp_packet(rx).type), bytes |-> parse_bgp_packet(rx).bytes]

\* buf.split_off(at): the bytes from at on
split_off(b, at) == IF at >= Len(b) THEN <<>> ELSE SubSeq(b, at + 1, Len(b))

\* the condition of the while loop of peer_read with its second half left out
frame_ready_header_only(b) == Len(b) >= BGP_PACKET_HEADER_LEN

\* the condition of the while loop of peer_read
frame_ready(b) ==
    /\ Len(b) >= BGP_PACKET_HEADER_LEN
    /\ Len(b) >= peek_bgp_length(b)

RECURSIVE frames_loop(_, _)
\* the while loop of peer_read: every whole frame of the buffer is parsed,
\* posted and split off
frames_loop(b, posted) ==
    IF frame_ready(b)
    THEN frames_loop(split_off(b, peek_bgp_length(b)), Append(posted, peer_packet_parse(b)))
    ELSE [buf |-> b, posted |-> posted]

\* the bytes still to arrive
ToArrive == Len(Stream(rd.frames)) - rd.arrived

\* read_buf returns Ok(n), n > 0: n more bytes are appended to buf
ReadSome(n) ==
    /\ rd.task = "Running"
    /\ LET r == frames_loop(rd.buf \o SubSeq(Stream(rd.frames), rd.arrived + 1, rd.arrived + n),
                            rd.posted)
       IN rd' = [rd EXCEPT !.arrived = @ + n, !.buf = r.buf, !.posted = r.posted]
    /\ UNCHANGED <<vars, store_vars, parser_vars>>

Read == \E n \in 1..ToArrive : ReadSome(n)

\* read_buf returns Ok(0): ConnFail is posted and peer_read returns
ReadEof ==
    /\ rd.task = "Running"
    /\ rd' = [rd EXCEPT !.posted = Append(@, [type |-> "ConnFail"]), !.task = "Done"]
    /\ UNCHANGED <<vars, store_vars, parser_vars>>

\* read_buf returns Err: ConnFail is posted and the loop goes on
ReadErr ==
    /\ rd.task = "Running"
    /\ rd.errs < MaxReadErrs
    /\ rd' = [rd EXCEPT !.posted = Append(@, [type |-> "ConnFail"]), !.errs = @ + 1]
    /\ UNCHANGED <<vars, store_vars, parser_vars>>

\* peer_start_reader on a new socket; the neighbor sends some frames
ReaderInit ==
    /\ PeerInit(CHOOSE cfg \in Configs : cfg.local_as < U16)
    /\ StoreNew
    /\ cm_rx = << <<>> >>
    /\ ParserIdle
    /\ \E fs \in FrameSeqs :
          rd = [frames |-> fs, arrived |-> 0, buf |-> <<>>, posted |-> <<>>,
                task |-> "Running", errs |-> 0]

ReaderNext ==
    \/ Read
    \/ ReadEof
    \/ ReadErr

SpecReader == ReaderInit /\ [][ReaderNext]_all_vars

\* ------------------------------------------------------------------------
\* The command parser (src/zebra/src/config/parse.rs).  An input line is the
\* sequence of its words; a match consumes the first word or nothing.
\* ------------------------------------------------------------------------
\* enum MatchType, in the order of its derive(PartialOrd)
MatchTypeNone == 0
MatchTypeIncomplete == 1
MatchTypePartial == 2
MatchTypeExact == 3

\* the words a request line is made of
Words == {"set", "delete", "show", "commit", "discard", "router", "bgp",
          "hold", "65001", "65002", "180", "s", "x",
          "peer", "zone", "name", "port", "descr", "tag", "net"}

\* the pairs <<a, b>> of Words with a a proper prefix of b
ProperPrefixes == {<<"s", "set">>, <<"s", "show">>}

IsProperPrefix(a, b) == (a = "" /\ b # "") \/ <<a, b>> \in ProperPrefixes

\* str::parse of an unsigned integer; -1 stands for Err
ParseNumber(w) ==
    CASE w = "65001" -> 65001
      [] w = "65002" -> 65002
      [] w = "180" -> 180
      [] OTHER -> -1

\* libyang Entry of the configure mode
Container(name, dir, presence) ==
    [name |-> name, kind |-> "container", key |-> <<>>, dir |-> dir,
     type |-> "none", range |-> <<>>, pattern |-> "", presence |-> presence]

List(name, key, dir) ==
    [name |-> name, kind |-> "list", key |-> key, dir |-> dir,
     type |-> "none", range |-> <<>>, pattern |-> "", presence |-> FALSE]

Leaf(name, type, range) ==
    [name |-> name, kind |-> "leaf", key |-> <<>>, dir |-> <<>>,
     type |-> type, range |-> range, pattern |-> "", presence |-> FALSE]

\* a leaf of type string with a pattern
PatternLeaf(name, pattern) ==
    [name |-> name, kind |-> "leaf", key |-> <<>>, dir |-> <<>>,
     type |-> "string", range |-> <<>>, pattern |-> pattern, presence |-> FALSE]

\* a leaf-list of type string with a pattern
PatternLeafList(name, pattern) ==
    [name |-> name, kind |-> "leaf-list", key |-> <<>>, dir |-> <<>>,
     type |-> "string", range |-> <<>>, pattern |-> pattern, presence |-> FALSE]

Schema ==
    [configure |-> Container("configure", <<"set", "delete", "show", "commit", "discard">>, FALSE),
     set       |-> Container("set", <<"router">>, FALSE),
     delete    |-> Container("delete", <<"router">>, FALSE),
     show      |-> Container("show", <<"router">>, TRUE),
     commit    |-> Leaf("commit", "empty", <<>>),
     discard   |-> Leaf("discard", "empty", <<>>),
     router    |-> Container("router", <<"bgp", "peer", "zone">>, FALSE),
     bgp       |-> List("bgp", <<"asn">>, <<"asn", "hold", "descr", "tag", "net">>),
     asn       |-> Leaf("asn", "uint32", <<>>),
     hold      |-> Leaf("hold", "uint16", <<0, 65535>>),
     descr     |-> Leaf("descr", "string", <<>>),
     tag       |-> PatternLeaf("tag", "^[a-z]"),
     net       |-> PatternLeafList("net", "^[a-z]"),
     peer      |-> List("peer", <<"name", "port">>, <<"name", "port", "hold">>),
     name      |-> Leaf("name", "string", <<>>),
     port      |-> Leaf("port", "uint16", <<1, 65535>>),
     zone      |-> List("zone", <<"tag">>, <<"tag", "hold">>)]

is_directory_entry(e) == e.kind \in {"container", "list"}
has_key(e) == e.key # <<>>
is_leaflist(e) == e.kind = "leaf-list"
is_empty_leaf(e) == e.kind = "leaf" /\ e.type = "empty"

\* s.parse::<T>() is Ok; every number of Words fits 32 bits
Fits(v, type) == v >= 0 /\ (type = "uint16" => v <= 65535)

\* State::new
StateNew == [ymatch |-> "Dir", index |-> 0, set |-> FALSE, delete |-> FALSE,
             show |-> FALSE, paths |-> <<>>]

\* a match result is <<MatchType, pos>>; pos is 1 when the word is consumed
match_keyword(src, dst) ==
    IF src = dst THEN <<MatchTypeExact, 1>>
    ELSE IF IsProperPrefix(src, dst) THEN <<MatchTypePartial, IF src = "" THEN 0 ELSE 1>>
    ELSE <<MatchTypeNone, 0>>

match_word(str) == <<MatchTypePartial, IF str = "" THEN 0 ELSE 1>>

\* Regex::is_match for the pattern of Schema: the input begins with a letter
regex_is_match(regstr, s) ==
    regstr = "^[a-z]" /\ s \in Words \ {"65001", "65002", "180"}

\* match_regexp: pos stays 0 whatever the regex matched
match_regexp(s, regstr) ==
    IF regex_is_match(regstr, s) THEN <<MatchTypeExact, 0>> ELSE <<MatchTypeNone, 0>>

match_string(s, node) ==
    IF node.pattern # "" THEN match_regexp(s, node.pattern) ELSE match_word(s)

match_range(input, node) ==
    LET v == ParseNumber(input) IN
    IF Fits(v, node.type)
    THEN IF node.range # <<>>
         THEN IF node.range[1] <= v /\ v <= node.range[2]
              THEN <<MatchTypeExact, 1>>
              ELSE <<MatchTypeNone, 0>>
         ELSE <<MatchTypeExact, 1>>
    ELSE <<MatchTypeNone, 0>>

\* Match::new; a Completion is its name
MatchNew == [pos |-> 0, count |-> 0, comps |-> <<>>, matched_entry |-> "",
             matched_type |-> MatchTypeNone]

\* Match::process in which a later candidate of the same type takes the place
\* of the first
process_last_wins(m, entry, r, comp) ==
    IF r[1] = MatchTypeNone THEN m
    ELSE IF r[1] >= m.matched_type
    THEN [pos |-> r[2], count |-> 1, comps |-> Append(m.comps, comp),
          matched_entry |-> entry, matched_type |-> r[1]]
    ELSE [m EXCEPT !.comps = Append(@, comp)]

\* Match::process
process(m, entry, r, comp) ==
    IF r[1] = MatchTypeNone THEN m
    ELSE IF r[1] > m.matched_type
    THEN [pos |-> r[2], count |-> 1, comps |-> Append(m.comps, comp),
          matched_entry |-> entry, matched_type |-> r[1]]
    ELSE IF r[1] = m.matched_type
    THEN [m EXCEPT !.count = @ + 1, !.comps = Append(@, comp)]
    ELSE [m EXCEPT !.comps = Append(@, comp)]

\* the names of the completions: cname(keyword), crange(entry, node), centry(entry)
cname(keyword) == keyword
crange == "<number>"
centry == "<word>"

entry_match_type(entry, input, m) ==
    LET e == Schema[entry] IN
    CASE e.type \in {"uint16", "uint32"} -> process(m, entry, match_range(input, e), crange)
      [] e.type = "string" -> process(m, entry, match_string(input, e), centry)
      [] OTHER -> m

RECURSIVE match_keywords(_, _, _)
\* the loop `for e in names { m.match_keyword(e, input, &e.name) }`
match_keywords(names, input, m) ==
    IF names = <<>> THEN m
    ELSE match_keywords(Tail(names), input,
                        process(m, Head(names), match_keyword(input, Head(names)),
                                cname(Head(names))))

entry_match_dir(entry, input, m) == match_keywords(Schema[entry].dir, input, m)

\* entry_key: the name of the key leaf at index, "" for None
entry_key(entry, index) ==
    LET e == Schema[entry] IN
    IF Len(e.key) <= index THEN ""
    ELSE IF \E i \in 1..Len(e.dir) : e.dir[i] = e.key[index + 1]
         THEN e.key[index + 1]
         ELSE ""

entry_match_key(entry, input, m, s) ==
    LET key == entry_key(entry, s.index) IN
    IF key # "" THEN entry_match_type(key, input, m) ELSE m

entry_is_key(name, keys) == \E i \in 1..Len(keys) : keys[i] = name

entry_match_key_matched(entry, input, m) ==
    LET e == Schema[entry] IN
    match_keywords(SelectSeq(e.dir, LAMBDA n : ~entry_is_key(n, e.key)), input, m)

ymatch_next(entry, ymatch) ==
    LET e == Schema[entry] IN
    CASE ymatch \in {"Dir", "DirMatched", "KeyMatched"} ->
             IF is_directory_entry(e)
             THEN IF has_key(e) THEN "Key" ELSE "Dir"
             ELSE IF is_leaflist(e) THEN "LeafList" ELSE "Leaf"
      [] ymatch = "Key" -> "KeyMatched"
      [] ymatch = "Leaf" -> "LeafMatched"
      [] ymatch = "LeafList" -> "LeafListMatched"
      [] OTHER -> ymatch

ymatch_complete(ymatch) ==
    ymatch \in {"DirMatched", "KeyMatched", "LeafMatched", "LeafListMatched"}

\* Option<Rc<Config>>: a node of the candidate tree, named by its path
NoConfig == [some |-> FALSE, path |-> <<>>]
SomeConfig(path) == [some |-> TRUE, path |-> path]

IsPrefixPath(p, q) == Len(p) <= Len(q) /\ SubSeq(q, 1, Len(p)) = p

\* the names of the children of the node at path
ConfigChildren(tree, path) ==
    {q[Len(path) + 1] : q \in {x \in tree : Len(x) > Len(path) /\ IsPrefixPath(path, x)}}

\* the names in the order of str::cmp
NameOrder == <<"180", "65001", "65002", "<number>", "<word>", "bgp", "commit",
               "delete", "descr", "discard", "hold", "name", "net", "peer",
               "port", "router", "s", "set", "show", "tag", "x", "zone">>

Rank(name) == CHOOSE i \in 1..Len(NameOrder) : NameOrder[i] = name

\* c put behind the names of sorted that are not greater
InsertByName(sorted, c) ==
    LET k == Cardinality({i \in 1..Len(sorted) : Rank(sorted[i]) <= Rank(c)})
    IN SubSeq(sorted, 1, k) \o <<c>> \o SubSeq(sorted, k + 1, Len(sorted))

RECURSIVE sort_by_name(_)
\* comps.sort_by(|a, b| a.name.cmp(&b.name)), a stable sort
sort_by_name(comps) ==
    IF comps = <<>> THEN <<>>
    ELSE InsertByName(sort_by_name(SubSeq(comps, 1, Len(comps) - 1)), comps[Len(comps)])

\* config_match: the word against the children of the config node
config_match(tree, path, input) ==
    LET kids == ConfigChildren(tree, path)
        types == {match_keyword(input, k)[1] : k \in kids}
        best == IF types = {} THEN MatchTypeNone
                ELSE CHOOSE t \in types : \A u \in types : u <= t
        hits == {k \in kids : match_keyword(input, k)[1] = best}
    IN IF best = MatchTypeNone
       THEN [count |-> 0, matched_config |-> <<>>, comps |-> <<>>]
       ELSE [count |-> Cardinality(hits),
             matched_config |-> Append(path, CHOOSE k \in hits : TRUE),
             comps |-> SelectSeq(NameOrder, LAMBDA n :
                           n \in kids /\ match_keyword(input, n)[1] # MatchTypeNone)]

CommandPath(name, ymatch, key) == [name |-> name, ymatch |-> ymatch, key |-> key]

\* the word the matchers look at
Word(input) == IF input = <<>> THEN "" ELSE Head(input)

\* parse, "Config match for set and delete": the Match cx
config_step(config, s, tree, word) ==
    IF (s.set \/ s.delete) /\ config.some
    THEN config_match(tree, config.path, word)
    ELSE [count |-> 0, matched_config |-> <<>>, comps |-> <<>>]

\* parse: the config subtree handed to the next word
config_next(config, s, cx) ==
    IF ~(s.set \/ s.delete) THEN config
    ELSE IF cx.count = 1 THEN SomeConfig(cx.matched_config)
    ELSE NoConfig

\* parse, "Entry match": the Match mx
entry_match(entry, word, s) ==
    CASE s.ymatch \in {"Dir", "DirMatched"} -> entry_match_dir(entry, word, MatchNew)
      [] s.ymatch = "Key" -> entry_match_key(entry, word, MatchNew, s)
      [] s.ymatch = "KeyMatched" -> entry_match_key_matched(entry, word, MatchNew)
      [] s.ymatch \in {"Leaf", "LeafList", "LeafListMatched"} ->
             entry_match_type(entry, word, MatchNew)
      [] OTHER -> MatchNew

\* parse, "delete overwrite entry completion with config completion"
delete_comps(mx, cx, s) == IF s.delete THEN [mx EXCEPT !.comps = cx.comps] ELSE mx

\* parse, "Transition to next yang match state": next, s.index, s.ymatch
next_entry(entry, s, mx) ==
    IF s.ymatch \in {"Dir", "DirMatched", "KeyMatched"} THEN mx.matched_entry ELSE entry

index_moved(s, mx) ==
    CASE s.ymatch \in {"Dir", "DirMatched", "KeyMatched"} ->
             IF ymatch_next(mx.matched_entry, s.ymatch) = "Key" THEN 0 ELSE s.index
      [] s.ymatch = "Key" -> s.index + 1
      [] OTHER -> s.index

ymatch_moved(entry, s, mx) ==
    CASE s.ymatch \in {"Dir", "DirMatched", "KeyMatched"} ->
             ymatch_next(mx.matched_entry, s.ymatch)
      [] s.ymatch = "Key" ->
             IF s.index + 1 >= Len(Schema[entry].key) THEN "KeyMatched" ELSE "Key"
      [] s.ymatch = "Leaf" -> "LeafMatched"
      [] s.ymatch = "LeafList" -> "LeafListMatched"
      [] OTHER -> s.ymatch

\* parse, "Delay YANG match transition to avoid elem type"
ymatch_delayed(ymatch, matched) ==
    IF ymatch = "Leaf" /\ is_empty_leaf(matched) THEN "LeafMatched"
    ELSE IF ymatch = "Dir" /\ matched.presence THEN "DirMatched"
    ELSE ymatch

\* parse, "Elem for set/delete/exec func"
command_path(ymatch, mx, word) ==
    IF ymatch_complete(ymatch)
    THEN CommandPath(IF mx.pos = 0 THEN "" ELSE word, ymatch, Schema[mx.matched_entry].name)
    ELSE CommandPath(Schema[mx.matched_entry].name, ymatch, "")

\* parse: the flags the path sets, and s.paths.push(path)
push_path(s, ymatch, index, path) ==
    [ymatch |-> ymatch,
     index |-> index,
     set |-> s.set \/ path.name = "set",
     delete |-> s.delete \/ path.name = "delete",
     show |-> s.show \/ path.name = "show",
     paths |-> Append(s.paths, path)]

with_ymatch(s, index, ymatch, mx, word) ==
    push_path(s, ymatch, index, command_path(ymatch, mx, word))

\* the parse state after a unique match of the word
transition(entry, s, mx, word) ==
    with_ymatch(s, index_moved(s, mx),
                ymatch_delayed(ymatch_moved(entry, s, mx), Schema[mx.matched_entry]),
                mx, word)

\* input.split_off(mx.pos), white space skipped
Remain(input, mx) == IF mx.pos = 0 THEN input ELSE Tail(input)

\* what a call of parse returns: the code, the completions, the state, and the
\* input it left
Parsed(code, comps, s, input) == [code |-> code, comps |-> comps, s |-> s, input |-> input]

\* the recursive call at the end of parse
Called(input, entry, config, s) ==
    [code |-> "Call", comps |-> <<>>, s |-> s, input |-> input, entry |-> entry,
     config |-> config]

\* the completions parse assembles once the word has a unique match
\* (comps_append, comps_add_cr, comps_add_config, comps_add_all) are left out
post_comps == <<>>

\* parse_remain that takes the end of the input for success
parse_remain_no_check(remain, next, config, s, mx) ==
    IF remain = <<>> THEN Parsed("Success", post_comps, s, remain)
    ELSE Called(remain, next, config,
                [s EXCEPT !.set = @ \/ next = "set", !.delete = @ \/ next = "delete"])

\* parse from "let remain" on: the end of the input, or the next word
parse_remain(remain, next, config, s, mx) ==
    IF remain = <<>>
    THEN IF ~ymatch_complete(s.ymatch) THEN Parsed("Incomplete", post_comps, s, remain)
         ELSE IF mx.matched_type = MatchTypeIncomplete
         THEN Parsed("Incomplete", post_comps, s, remain)
         ELSE Parsed("Success", post_comps, s, remain)
    ELSE Called(remain, next, config,
                [s EXCEPT !.set = @ \/ next = "set", !.delete = @ \/ next = "delete"])

\* parse from "Early return for no match and ambiguous match" on
parse_matched(input, entry, config, s, mx) ==
    IF mx.count = 0 THEN Parsed("Nomatch", mx.comps, s, input)
    ELSE IF mx.count > 1 THEN Parsed("Ambiguous", sort_by_name(mx.comps), s, input)
    ELSE parse_remain(Remain(input, mx), next_entry(entry, s, mx), config,
                      transition(entry, s, mx, Word(input)), mx)

\* parse from the config match on
parse_config(input, entry, config, s, cx) ==
    IF s.delete /\ cx.count = 0 THEN Parsed("Nomatch", cx.comps, s, input)
    ELSE IF s.delete /\ cx.count > 1 THEN Parsed("Ambiguous", cx.comps, s, input)
    ELSE parse_matched(input, entry, config_next(config, s, cx), s,
                       delete_comps(entry_match(entry, Word(input), s), cx, s))

\* one activation of parse(input, entry, config, s) over the candidate tree,
\* up to its return or its recursive call
parse_call(input, entry, config, s, tree) ==
    parse_config(input, entry, config, s, config_step(config, s, tree, Word(input)))

RECURSIVE parse(_, _, _, _, _)
\* the recursive call is made and its result returned
parse_return(r, tree) ==
    IF r.code = "Call" THEN parse(r.input, r.entry, r.config, r.s, tree) ELSE r

\* parse(input, entry, config, s) over the candidate tree
parse(input, entry, config, s, tree) ==
    parse_return(parse_call(input, entry, config, s, tree), tree)

\* ------------------------------------------------------------------------
\* The parser at work: a Match fed candidate by candidate, and parse() call by
\* call on a request line
\* ------------------------------------------------------------------------
\* the candidates a matcher can hand to Match::process
Candidates == [type : {MatchTypeNone, MatchTypeIncomplete, MatchTypePartial, MatchTypeExact},
               pos : {0, 1},
               entry : {"set", "show"}]

\* the Match of pc, a new one when none is there yet
TheMatch == IF pc.code = "Match" THEN pc.m ELSE MatchNew

TheFed == IF pc.code = "Match" THEN pc.fed ELSE <<>>

\* m.process(entry, (type, pos), cname(entry.name))
Feed ==
    /\ pc.code \in {"Idle", "Match"}
    /\ Len(TheFed) < MaxCands
    /\ \E c \in Candidates :
          pc' = [code |-> "Match",
                 m |-> process(TheMatch, c.entry, <<c.type, c.pos>>, cname(c.entry)),
                 fed |-> Append(TheFed, c)]
    /\ UNCHANGED <<vars, store_vars, reader_vars>>

\* the request lines, each with the lines it begins with
FullLines ==
    {<<"set", "router", "bgp", "65001", "hold", "180", "180">>,
     <<"set", "router", "bgp", "65001", "hold", "x">>,
     <<"set", "router", "bgp", "x">>,
     <<"set", "router", "bgp", "65002", "descr", "delete">>,
     <<"show", "router", "bgp", "65001", "descr", "set">>,
     <<"show", "router", "bgp", "65001", "descr", "delete">>,
     <<"show", "router", "bgp", "65001", "tag", "x">>,
     <<"set", "router", "bgp", "65001", "net", "x">>,
     <<"set", "router", "peer", "x", "180", "hold", "180">>,
     <<"set", "router", "peer", "show", "180">>,
     <<"set", "router", "peer", "x", "x">>,
     <<"set", "router", "zone", "x", "hold", "180">>,
     <<"delete", "router", "bgp", "65001", "hold", "180">>,
     <<"delete", "router", "bgp", "65002">>,
     <<"delete", "router", "x">>,
     <<"show", "router", "x">>,
     <<"commit", "x">>,
     <<"discard">>,
     <<"s">>,
     <<"x">>}

ParseLines == UNION {{SubSeq(l, 1, n) : n \in 0..Len(l)} : l \in FullLines}

\* the candidate trees a line is parsed over
HoldPath == <<"router", "bgp", "65001", "hold", "180">>

ParseTrees == {{}, {SubSeq(HoldPath, 1, n) : n \in 1..Len(HoldPath)}}

\* ConfigManager::execute and completion: parse(line, mode.entry, Some(candidate), State::new())
ParseStart ==
    /\ pc.code = "Idle"
    /\ \E line \in ParseLines, tree \in ParseTrees :
          pc' = [code |-> "Call", line |-> line, tree |-> tree, calls |-> 0,
                 input |-> line, entry |-> "configure", config |-> SomeConfig(<<>>),
                 s |-> StateNew, comps |-> <<>>,
                 cx |-> config_step(NoConfig, StateNew, tree, ""), mx |-> MatchNew,
                 count |-> 0]
    /\ UNCHANGED <<vars, store_vars, reader_vars>>

\* the count parse looks at: under delete that of the config match unless it
\* is 1, else that of the entry match
match_count(s, cx, mx) == IF s.delete /\ cx.count # 1 THEN cx.count ELSE mx.count

\* the call of parse under way runs up to its return or its recursive call;
\* cx and mx are what the config match and the entry match of the call give
ParseStep(r) ==
    pc' = [pc EXCEPT !.code = r.code,
                     !.calls = @ + 1,
                     !.input = r.input,
                     !.entry = IF r.code = "Call" THEN r.entry ELSE @,
                     !.config = IF r.code = "Call" THEN r.config ELSE @,
                     !.s = r.s,
                     !.comps = r.comps,
                     !.cx = config_step(pc.config, pc.s, pc.tree, Word(pc.input)),
                     !.mx = entry_match(pc.entry, Word(pc.input), pc.s),
                     !.count = match_count(pc.s,
                                   config_step(pc.config, pc.s, pc.tree, Word(pc.input)),
                                   entry_match(pc.entry, Word(pc.input), pc.s))]

ParseCall ==
    /\ pc.code = "Call"
    /\ pc.calls < MaxCalls
    /\ ParseStep(parse_call(pc.input, pc.entry, pc.config, pc.s, pc.tree))
    /\ UNCHANGED <<vars, store_vars, reader_vars>>

ParserInit ==
    /\ PeerInit(CHOOSE cfg \in Configs : cfg.local_as < U16)
    /\ StoreNew
    /\ cm_rx = << <<>> >>
    /\ ReaderNone
    /\ ParserIdle

ParserNext ==
    \/ Feed
    \/ ParseStart
    \/ ParseCall

SpecParser == ParserInit /\ [][ParserNext]_all_vars

\* ------------------------------------------------------------------------
\* The configuration store and manager (src/zebra/src/config/manager.rs).
\* A tree is the set of the paths of its nodes.
\* ------------------------------------------------------------------------
\* every path of the schema over Words, in the order Config::list walks a tree
AllPaths ==
    << <<"router">>,
       <<"router", "bgp">>,
       <<"router", "bgp", "65001">>,
       <<"router", "bgp", "65001", "hold">>,
       <<"router", "bgp", "65001", "hold", "180">>,
       <<"router", "bgp", "65002">>,
       <<"router", "bgp", "65002", "hold">>,
       <<"router", "bgp", "65002", "hold", "180">> >>

Prefixes(path) == {SubSeq(path, 1, n) : n \in 1..Len(path)}

IsLeafOf(tree, path) == path \in tree /\ ConfigChildren(tree, path) = {}

\* Config::list: one line per leaf of the tree
list(tree) == SelectSeq(AllPaths, LAMBDA p : IsLeafOf(tree, p))

\* the store as the manager's functions see it
St == [running |-> running, candidate |-> candidate, shared |-> shared, cm_rx |-> cm_rx]

\* carbon_copy: a new Rc<Config> holding a copy of every node
carbon_copy(tree) == [tree |-> {p \in tree : TRUE}, fresh |-> TRUE]

\* a write through the Rc that candidate holds
WriteCandidate(st, tree) ==
    [st EXCEPT !.candidate = tree, !.running = IF st.shared THEN tree ELSE @]

\* ConfigStore::commit with running.replace(candidate.clone())
commit_shared(st) == [st EXCEPT !.running = st.candidate, !.shared = TRUE]

\* ConfigStore::commit
commit(st) ==
    LET copy == carbon_copy(st.candidate)
    IN [st EXCEPT !.running = copy.tree, !.shared = ~copy.fresh]

\* ConfigStore::discard that leaves candidate as it is
discard_nothing(st) == st

\* ConfigStore::discard
discard(st) ==
    LET copy == carbon_copy(st.running)
    IN [st EXCEPT !.candidate = copy.tree, !.shared = ~copy.fresh]

\* the names of the path elements after the command word
ElemNames(elems) == [i \in 1..(Len(elems) - 1) |-> elems[i + 1].name]

\* config_set: walk candidate, creating the missing children
config_set(elems, st) ==
    WriteCandidate(st, st.candidate \cup Prefixes(ElemNames(elems)))

\* delete: if the path resolves remove its subtree, and the list node above it
\* when the removed node was its only entry
delete(elems, st) ==
    LET path == ElemNames(elems)
        pruned == {p \in st.candidate : ~IsPrefixPath(path, p)}
        parent == SubSeq(path, 1, Len(path) - 1)
        sole == /\ elems[Len(elems)].ymatch = "KeyMatched"
                /\ ConfigChildren(pruned, parent) = {}
    IN IF path = <<>> \/ path \notin st.candidate THEN st
       ELSE WriteCandidate(st, IF sole THEN pruned \ {parent} ELSE pruned)

\* a line of the unified diff: its marker character and the rest
DiffLine(marker, text) == [marker |-> marker, text |-> text]

Max(a, b) == IF a >= b THEN a ELSE b

RECURSIVE LcsLen(_, _)
LcsLen(a, b) ==
    IF a = <<>> \/ b = <<>> THEN 0
    ELSE IF Head(a) = Head(b) THEN 1 + LcsLen(Tail(a), Tail(b))
    ELSE Max(LcsLen(Tail(a), b), LcsLen(a, Tail(b)))

RECURSIVE DiffLines(_, _)
\* TextDiff::from_lines: a shortest edit script, removals before insertions
DiffLines(a, b) ==
    IF a = <<>> THEN [i \in 1..Len(b) |-> DiffLine("+", b[i])]
    ELSE IF b = <<>> THEN [i \in 1..Len(a) |-> DiffLine("-", a[i])]
    ELSE IF Head(a) = Head(b)
    THEN <<DiffLine(" ", Head(a))>> \o DiffLines(Tail(a), Tail(b))
    ELSE IF LcsLen(Tail(a), b) >= LcsLen(a, Tail(b))
    THEN <<DiffLine("-", Head(a))>> \o DiffLines(Tail(a), b)
    ELSE <<DiffLine("+", Head(b))>> \o DiffLines(a, Tail(b))

\* unified_diff().context_radius(65535).to_string(): nothing when the texts are
\* equal, else the hunk header and every line of the one hunk
unified_diff(a, b) ==
    LET d == DiffLines(a, b) IN
    IF \A i \in 1..Len(d) : d[i].marker = " " THEN <<>>
    ELSE <<DiffLine("@", <<"@@">>)>> \o d

trim_first_line(diff) == IF diff = <<>> THEN diff ELSE Tail(diff)

remove_first_char(line) == line.text

\* tx.send(line) to every subscriber
SendAll(st, lines) ==
    [st EXCEPT !.cm_rx = [i \in DOMAIN st.cm_rx |-> st.cm_rx[i] \o lines]]

\* commit_config that replaces running before it takes the diff
commit_config_commit_first(st) ==
    LET st1 == commit(st)
        diff == trim_first_line(unified_diff(list(st1.running), list(st1.candidate)))
    IN SendAll(st1, [i \in 1..Len(diff) |-> remove_first_char(diff[i])])

\* ConfigManager::commit_config
commit_config(st) ==
    LET diff == trim_first_line(unified_diff(list(st.running), list(st.candidate)))
    IN commit(SendAll(st, [i \in 1..Len(diff) |-> remove_first_char(diff[i])]))

\* elem_str: the path a function of the mode is registered under
elem_str(elems) == [i \in 1..Len(elems) |-> elems[i].name]

Response(code, output) == [code |-> code, output |-> output]

\* the functions of the configure mode (mode.fmap)
fmap(path, st, code) ==
    CASE path = <<"commit">> ->
             [st |-> commit_config(st), resp |-> Response("Show", <<>>), op |-> "commit"]
      [] path = <<"discard">> ->
             [st |-> discard(st), resp |-> Response("Show", <<>>), op |-> "discard"]
      [] path = <<"show">> ->
             [st |-> st, resp |-> Response("Show", <<>>), op |-> "other"]
      [] OTHER ->
             [st |-> st, resp |-> Response(code, <<>>), op |-> "other"]

\* what parse gives for a line of the configure mode
ParseLine(input, tree) == parse(input, "configure", SomeConfig(<<>>), StateNew, tree)

\* ConfigManager::execute after its call of parse
execute_parsed(st, input, r) ==
    IF r.s.set
    THEN [st |-> config_set(r.s.paths, st), resp |-> Response("Show", <<>>), op |-> "set"]
    ELSE IF r.s.delete
    THEN [st |-> delete(r.s.paths, st), resp |-> Response("Show", <<>>), op |-> "delete"]
    ELSE IF r.s.show /\ Len(r.s.paths) > 1
    THEN [st |-> st, resp |-> Response("RedirectShow", input), op |-> "other"]
    ELSE fmap(elem_str(r.s.paths), st, r.code)

\* ConfigManager::execute
execute(st, input) == execute_parsed(st, input, ParseLine(input, st.candidate))

\* ConfigManager::completion, without the completions
completion(st, input) == Response(ParseLine(input, st.candidate).code, <<>>)

\* the lines and modes of the requests
CommandLines ==
    {<<"set", "router", "bgp", "65001">>,
     <<"set", "router", "bgp", "65002">>,
     <<"set", "router", "bgp", "65001", "hold", "180">>,
     <<"set", "router", "bgp">>,
     <<"set", "router", "x">>,
     <<"delete", "router", "bgp", "65001">>,
     <<"delete", "router", "bgp", "65002", "hold">>,
     <<"delete", "router", "x">>,
     <<"commit">>, <<"discard">>, <<"show">>, <<"show", "router">>,
     <<"s">>, <<"x">>}

Modes == {"configure"}

\* a request names a mode of the manager, or one it does not have
Requests == [mode : Modes, input : CommandLines]
                \cup {[mode |-> "unknown", input |-> <<"commit">>]}

\* hist keeps the commits and discards that followed one another
Remember(op) ==
    hist' = IF op \in {"commit", "discard"}
            THEN Append(IF Len(hist) >= 2 THEN Tail(hist) ELSE hist,
                        [op |-> op, running |-> running, candidate |-> candidate])
            ELSE <<>>

\* the manager takes the next request once its subscribers have caught up
StoreRoom == \A i \in DOMAIN cm_rx : cm_rx[i] = <<>>

\* req.resp.send(resp), with the store as execute left it
Respond(r) ==
    /\ running' = r.st.running
    /\ candidate' = r.st.candidate
    /\ shared' = r.st.shared
    /\ cm_rx' = r.st.cm_rx
    /\ resp' = r.resp
    /\ Remember(r.op)

\* process_message, Message::Execute
ExecuteReq(req) ==
    /\ StoreRoom
    /\ Respond(IF req.mode \in Modes
               THEN execute(St, req.input)
               ELSE [st |-> St, resp |-> Response("Nomatch", <<>>), op |-> "other"])
    /\ UNCHANGED <<vars, reader_vars, parser_vars>>

Execute == \E req \in Requests : ExecuteReq(req)

\* process_message, Message::Completion
CompletionReq(req) ==
    /\ StoreRoom
    /\ resp' = IF req.mode \in Modes
               THEN completion(St, req.input)
               ELSE Response("Nomatch", <<>>)
    /\ UNCHANGED <<running, candidate, shared, cm_rx, hist>>
    /\ UNCHANGED <<vars, reader_vars, parser_vars>>

Completion == \E req \in Requests : CompletionReq(req)

\* a subscriber takes the next line from its channel
SubscriberRecv ==
    /\ \E i \in DOMAIN cm_rx :
          /\ cm_rx[i] # <<>>
          /\ cm_rx' = [cm_rx EXCEPT ![i] = Tail(@)]
    /\ UNCHANGED <<running, candidate, shared, resp, hist>>
    /\ UNCHANGED <<vars, reader_vars, parser_vars>>

\* the manager after new() and subscribe(); the peer does not run
StoreInit ==
    /\ PeerInit(CHOOSE cfg \in Configs : cfg.local_as < U16)
    /\ StoreNew
    /\ \E n \in 1..MaxSubs : cm_rx = [i \in 1..n |-> <<>>]
    /\ ReaderNone
    /\ ParserIdle

StoreNext ==
    \/ Execute
    \/ Completion
    \/ SubscriberRecv

SpecStore == StoreInit /\ [][StoreNext]_all_vars

StoreTypeOK ==
    /\ running \subseteq {AllPaths[i] : i \in 1..Len(AllPaths)}
    /\ candidate \subseteq {AllPaths[i] : i \in 1..Len(AllPaths)}
    /\ \A p \in candidate : Prefixes(p) \subseteq candidate
    /\ shared \in BOOLEAN
    /\ Len(hist) <= 2

\* ------------------------------------------------------------------------
\* Properties
\* ------------------------------------------------------------------------
SessionStates == {"OpenSent", "OpenConfirm", "Established"}

PacketEvents == {"BGPOpen", "KeepAliveMsg", "UpdateMsg", "NotifMsg"}

\* the step in which fsm() handles an event of one of the types T in a state of S
Handles(T, S) == state \in S /\ mailbox # <<>> /\ Head(mailbox).type \in T /\ HandleEvent

Notification(code, subcode) == [type |-> "Notification", code |-> code, subcode |-> subcode]

Sent(msg) == \E i \in 1..Len(sends) : sends[i] = msg

SentNotificationCode(code) ==
    \E i \in 1..Len(sends) : sends[i].type = "Notification" /\ sends[i].code = code

\* C1: in every reachable state the reader and the writer are both present or
\* both absent, and they are present iff the state is OpenSent, OpenConfirm or
\* Established.
C1_ReaderWriterIffSession ==
    /\ (task.reader # "None") <=> (task.writer # "None")
    /\ (task.reader # "None") <=> (state \in SessionStates)

\* C2: in every reachable state the keepalive timer is armed iff the state is
\* Established.
C2_KeepaliveIffEstablished ==
    Armed(timer.keepalive) <=> (state = "Established")

\* C3: after Stop is handled in any state the peer is in Idle, the connect,
\* reader and writer tasks are cancelled, the connect-retry, hold and keepalive
\* timers are cancelled, the send channel is dropped and one idle-hold timer is
\* armed.
C3_StopCancelsEverything ==
    [][Handles({"Stop"}, States) =>
          /\ state' = "Idle"
          /\ task'.connect = "None"
          /\ task'.reader = "None"
          /\ task'.writer = "None"
          /\ ~Armed(timer'.connect_retry)
          /\ ~Armed(timer'.hold_timer)
          /\ ~Armed(timer'.keepalive)
          /\ ~packet_tx'
          /\ Armed(timer'.idle_hold_timer)]_vars

\* C4: in every reachable state the send channel packet_tx exists iff a writer
\* task exists.
C4_SendChannelIffWriter ==
    packet_tx <=> (task.writer # "None")

\* C5: handling BGPOpen ends in Established with the 30 s periodic keepalive
\* timer and the 180 s hold timer armed iff the peer was in OpenSent and the
\* Open's ASN is peer_as and its bgp_id is the neighbor address; otherwise it
\* ends in Idle with neither timer armed.
OpenAccepted == /\ prev_state = "OpenSent"
                /\ last_event.asn = peer_as
                /\ last_event.bgp_id = address

C5_OpenAcceptedIff ==
    last_event.type = "BGPOpen" =>
        IF OpenAccepted
        THEN /\ state = "Established"
             /\ Armed(timer.keepalive)
             /\ timer.keepalive.kind = "Infinite"
             /\ timer.keepalive.duration = 30
             /\ Armed(timer.hold_timer)
             /\ timer.hold_timer.kind = "Infinite"
             /\ timer.hold_timer.duration = 180
        ELSE /\ state = "Idle"
             /\ ~Armed(timer.keepalive)
             /\ ~Armed(timer.hold_timer)

C5_Witness ==
    /\ last_event.type = "BGPOpen"
    /\ OpenAccepted
    /\ state = "Established"
    /\ Armed(timer.keepalive)
    /\ Armed(timer.hold_timer)

\* C6: when a peer in OpenSent handles an Open whose ASN differs from peer_as,
\* a Notification (code 2, subcode 2) is enqueued to the writer, the peer is in
\* Idle and the idle-hold timer is re-armed to 5 s.
C6_AsnMismatchNotifies ==
    (last_event.type = "BGPOpen" /\ prev_state = "OpenSent" /\ last_event.asn # peer_as) =>
        /\ Sent(Notification(2, 2))
        /\ state = "Idle"
        /\ timer.idle_hold_timer.kind = "Once"
        /\ timer.idle_hold_timer.duration = 5

\* C7: when the hold timer expires in Established, a Notification with code 4 is
\* enqueued to the writer and the peer is in Idle with reader, writer, hold and
\* keepalive cancelled and idle-hold re-armed.
C7_HoldExpiryNotifies ==
    (last_event.type = "HoldTimerExpires" /\ prev_state = "Established") =>
        /\ SentNotificationCode(4)
        /\ state = "Idle"
        /\ task.reader = "None"
        /\ task.writer = "None"
        /\ ~Armed(timer.hold_timer)
        /\ ~Armed(timer.keepalive)
        /\ timer.idle_hold_timer.kind = "Once"

\* C8: a peer in Active is never left with no pending timer, task or event, so
\* that it can start a new connection attempt.
C8_ActiveHasPendingRetry ==
    state = "Active" =>
        \/ mailbox # <<>>
        \/ ArmedTimers # {}
        \/ task.connect = "Running"
        \/ task.reader = "Running"

StaleEvents == {"ConnFail", "Connected", "BGPOpen", "KeepAliveMsg", "UpdateMsg",
                "HoldTimerExpires", "KeepaliveTimerExpires", "ConnRetryTimerExpires"}

C10_StaleEventInIdleIsNoOp ==
    [][Handles(StaleEvents, {"Idle"}) =>
          /\ state' = "Idle"
          /\ task' = task
          /\ sends' = <<>>]_vars

\* C11: the Open enqueued when Connected is handled carries an ASN field equal
\* to the configured local_as and a BGP identifier equal to the router-id
\* octets, and some Open the neighbor can send is accepted as matching the
\* configured peer_as.
OpenMsg(asn, id) == [type |-> "Open", asn |-> asn, bgp_id |-> id]

C11_OpenCarriesConfiguredAs ==
    last_event.type = "Connected" =>
        /\ Sent(OpenMsg(local_as, router_id))
        /\ \E pkt \in Packets :
              /\ pkt.type = "BGPOpen"
              /\ fsm_bgp_open([Ctx EXCEPT !.state = "OpenSent"], pkt).state = "Established"

\* C16: for a peer in Connect, Active or OpenSent, handling KeepAliveMsg,
\* UpdateMsg or KeepaliveTimerExpires leaves the state unchanged.
C16_NoEstablishedBeforeOpen ==
    [][Handles({"KeepAliveMsg", "UpdateMsg", "KeepaliveTimerExpires"},
               {"Connect", "Active", "OpenSent"}) =>
          state' = state]_vars

\* C17: Start and IdleHoldTimerExpires handled outside Idle,
\* ConnRetryTimerExpires handled outside Connect and Active, and Connected
\* handled outside Connect and Active leave the peer's state, tasks, timers and
\* send channel unchanged.
C17_MisplacedEventIsIgnored ==
    [][(\/ Handles({"Start", "IdleHoldTimerExpires"}, States \ {"Idle"})
        \/ Handles({"ConnRetryTimerExpires", "Connected"},
                   States \ {"Connect", "Active"})) =>
          /\ state' = state
          /\ task' = task
          /\ timer' = timer
          /\ packet_tx' = packet_tx]_vars

\* C18: after Start is handled in Idle the peer is in Connect with a connect
\* task and no idle-hold timer armed; no idle-hold timer is armed while the
\* peer is in a state other than Idle, and no Start is pending for a peer that
\* has left Idle.
C18_IdleHoldOnlyInIdle ==
    /\ (last_event.type = "Start" /\ prev_state = "Idle") =>
          /\ state = "Connect"
          /\ task.connect # "None"
          /\ ~Armed(timer.idle_hold_timer)
    /\ state # "Idle" =>
          /\ ~Armed(timer.idle_hold_timer)
          /\ \A i \in 1..Len(mailbox) : mailbox[i].type # "Start"

\* C19: handling ConnFail in Connect, OpenSent, OpenConfirm or Established
\* moves the peer to Active, drops the reader and writer tasks, and leaves a
\* connect-retry timer armed.
C19_ConnFailArmsConnectRetry ==
    [][Handles({"ConnFail"}, {"Connect", "OpenSent", "OpenConfirm", "Established"}) =>
          /\ state' = "Active"
          /\ task'.reader = "None"
          /\ task'.writer = "None"
          /\ Armed(timer'.connect_retry)]_vars

\* C20: after Connected is handled in Connect or Active the connect task is
\* cancelled, the send channel exists, a reader and a writer are spawned, an
\* Open followed by a Keepalive has been enqueued and the peer is in OpenSent;
\* what the writer has written followed by what is still queued is the Open,
\* then only Keepalives: the Open is written first and once, nothing is
\* reordered.
C20_ConnectedSendsOpenThenKeepalive ==
    /\ (last_event.type = "Connected" /\ prev_state \in {"Connect", "Active"}) =>
          /\ state = "OpenSent"
          /\ task.connect = "None"
          /\ packet_tx
          /\ task.reader # "None"
          /\ task.writer = "Running"
          /\ sends = <<OpenMsg(local_as % U16, router_id), [type |-> "Keepalive"]>>
    /\ task.writer = "Running" =>
          LET written == wire \o packet_rx IN
          /\ Len(written) >= 2
          /\ written[1] = OpenMsg(local_as % U16, router_id)
          /\ \A i \in 2..Len(written) : written[i] = [type |-> "Keepalive"]

C20_Witness ==
    /\ last_event.type = "Connected"
    /\ prev_state = "Connect"
    /\ state = "OpenSent"
    /\ wire = <<OpenMsg(local_as % U16, router_id), [type |-> "Keepalive"]>>
    /\ packet_rx = <<>>

Last(seq) == seq[Len(seq)]

CommitRequest == [mode |-> "configure", input |-> <<"commit">>]

\* the step in which the manager executes `commit`
CommitStep == ExecuteReq(CommitRequest)

\* C12: commit followed by discard leaves running and candidate equal to the
\* candidate before the commit, and discard followed by commit leaves both
\* equal to the running tree before the discard.
C12_CommitDiscardAgree ==
    Len(hist) = 2 =>
        /\ (hist[1].op = "commit" /\ hist[2].op = "discard") =>
              /\ running = candidate
              /\ candidate = hist[1].candidate
        /\ (hist[1].op = "discard" /\ hist[2].op = "commit") =>
              /\ running = candidate
              /\ running = hist[1].running

C12_Witness ==
    /\ Len(hist) = 2
    /\ hist[1].op = "discard"
    /\ hist[2].op = "commit"
    /\ hist[1].running # hist[1].candidate
    /\ hist[1].running # {}
    /\ running = hist[1].running
    /\ candidate = hist[1].running

\* C13: the commit step leaves running equal to the candidate tree of that
\* moment in an Rc of its own, and no other step changes running: set and
\* delete change candidate only.
C13_RunningIsSnapshot ==
    [][/\ CommitStep => (running' = candidate /\ candidate' = candidate /\ ~shared')
       /\ ~CommitStep => running' = running]_all_vars

C13_Witness ==
    /\ running # {}
    /\ candidate # running
    /\ ~(running \subseteq candidate)
    /\ ~shared
    /\ hist = <<>>
    /\ resp.code = "Show"

\* the lines of the diff from tree a to tree b without their markers
DiffTexts(a, b) ==
    IF list(a) = list(b) THEN <<>>
    ELSE LET d == DiffLines(list(a), list(b)) IN [i \in 1..Len(d) |-> d[i].text]

\* C14: in the commit step every subscriber is sent the lines of the diff from
\* the running tree to the candidate tree, without markers and in order, the
\* diff being taken before running is replaced; with running empty and
\* candidate holding only `router bgp 65001` that is the one line
\* `router bgp 65001`.
C14_CommitSendsDiffLines ==
    [][CommitStep =>
          /\ \A i \in DOMAIN cm_rx : cm_rx'[i] = cm_rx[i] \o DiffTexts(running, candidate)
          /\ DOMAIN cm_rx' = DOMAIN cm_rx
          /\ running' = candidate
          /\ (running = {} /\ list(candidate) = << <<"router", "bgp", "65001">> >>) =>
                \A i \in DOMAIN cm_rx : cm_rx'[i] = << <<"router", "bgp", "65001">> >>]_all_vars

C14_Witness ==
    /\ Len(cm_rx) = 2
    /\ cm_rx[1] = << <<"router", "bgp", "65001">> >>
    /\ cm_rx[2] = << <<"router", "bgp", "65001">> >>
    /\ hist # <<>>
    /\ Last(hist).op = "commit"
    /\ Last(hist).running = {}
    /\ running = candidate

UserCommandErrors == {"Nomatch", "Ambiguous", "Incomplete"}

\* C15: an Execute request whose line parses to Nomatch, Ambiguous or
\* Incomplete leaves candidate and running unchanged and answers with that
\* code, and a Completion request changes neither tree.
C15_CommandErrorChangesNothing ==
    [][/\ \A req \in Requests :
             (/\ req.mode \in Modes
              /\ ParseLine(req.input, candidate).code \in UserCommandErrors
              /\ ExecuteReq(req)) =>
                 /\ running' = running
                 /\ candidate' = candidate
                 /\ resp'.code = ParseLine(req.input, candidate).code
       /\ Completion => (running' = running /\ candidate' = candidate)]_all_vars

\* C21: every step of fsm() from a state other than Idle into Idle leaves the
\* peer as one run of fsm_stop leaves it: no reader, no writer, no
\* connect-retry, hold or keepalive timer, and one fresh idle-hold timer that
\* posts Start once; running fsm_stop a second time changes nothing, and every
\* event other than Stop, HoldTimerExpires, NotifMsg and BGPOpen that is handled
\* outside Idle does not end in Idle.
IntoIdle == state # "Idle" /\ HandleEvent /\ state' = "Idle"

C21_IdleCleanupIdempotent ==
    [][/\ fsm_stop(fsm_stop(Ctx)) = fsm_stop(Ctx)
       /\ IntoIdle =>
             /\ Head(mailbox).type \in {"Stop", "HoldTimerExpires", "NotifMsg", "BGPOpen"}
             /\ Ctx' = fsm_stop([Ctx EXCEPT !.sends = <<>>])
             /\ task'.reader = "None"
             /\ task'.writer = "None"
             /\ timer'.connect_retry = NoTimer
             /\ timer'.hold_timer = NoTimer
             /\ timer'.keepalive = NoTimer
             /\ timer'.idle_hold_timer = TimerNew(IdleHoldTime, "Once", "Start")]_vars

C21_Witness ==
    /\ last_event.type = "Stop"
    /\ prev_state = "Established"
    /\ state = "Idle"
    /\ ArmedTimers = {"idle_hold_timer"}
    /\ timer.idle_hold_timer.remaining = IdleHoldTime

\* C23: when the reader's read returns 0 bytes or an error, the reader posts
\* one ConnFail and terminates.
C23_ReaderFailureEndsReader ==
    [][(ReaderEof \/ ReaderErr) =>
          /\ mailbox' = Append(mailbox, Ev("ConnFail"))
          /\ task'.reader = "Done"]_vars

\* C30: the daemon loop never panics on the unwrap of packet_tx: the send
\* channel exists whenever the keepalive timer is armed, whenever a
\* KeepaliveTimerExpires waits in the mailbox, and after KeepaliveTimerExpires
\* or Connected has been handled.
C30_SendChannelBeforeSend ==
    /\ ~panicked
    /\ Armed(timer.keepalive) => packet_tx
    /\ (\E i \in 1..Len(mailbox) : mailbox[i].type = "KeepaliveTimerExpires") => packet_tx
    /\ last_event.type \in {"KeepaliveTimerExpires", "Connected"} => packet_tx

C30_Witness ==
    /\ last_event.type = "KeepaliveTimerExpires"
    /\ prev_state = "Idle"
    /\ packet_tx
    /\ sends = <<[type |-> "Keepalive"]>>
    /\ ~panicked

StartPending == \E i \in 1..Len(mailbox) : mailbox[i].type = "Start"

StartHandled == last_event.type = "Start" /\ state = "Connect"

\* C24: the peer is created in Idle with the idle-hold timer armed; whenever it
\* is in Idle the idle-hold timer is armed or its Start waits in the mailbox;
\* and unless Stop is posted again and again, a peer in Idle eventually handles
\* Start and enters Connect.
C24_IdlePeerRestarts ==
    /\ state = "Idle" /\ Armed(timer.idle_hold_timer)
    /\ [](state = "Idle" => (Armed(timer.idle_hold_timer) \/ StartPending))
    /\ ([]<><<PostStop>>_all_vars \/ ((state = "Idle") ~> StartHandled))

C24_Witness ==
    /\ StartHandled
    /\ prev_state = "Idle"
    /\ packet_tx
    /\ task.connect = "Running"

\* the events of packets among those the reader posted
PacketsPosted == SelectSeq(rd.posted, LAMBDA e : e.type # "ConnFail")

RECURSIVE WholeFrames(_, _)
\* how many of the frames lie wholly within the first n bytes
WholeFrames(frames, n) ==
    IF frames = <<>> \/ Len(Head(frames)) > n THEN 0
    ELSE 1 + WholeFrames(Tail(frames), n - Len(Head(frames)))

\* C22: however the stream of well-formed frames is split into reads, the
\* packet events the reader has posted are, in the order of the stream, one
\* event for each frame whose bytes have all arrived, each of the type and with
\* the bytes of that frame; no event is posted for a frame of which a part has
\* not arrived, and the buffer holds the bytes of that part and nothing else.
C22_OneEventPerFrame ==
    rd.task # "None" =>
        LET whole == WholeFrames(rd.frames, rd.arrived) IN
        /\ PacketsPosted = [i \in 1..whole |->
                               [type |-> PacketEvent(rd.frames[i][19]), bytes |-> rd.frames[i]]]
        /\ Stream(SubSeq(rd.frames, 1, whole)) \o rd.buf
              = SubSeq(Stream(rd.frames), 1, rd.arrived)

C22_Witness ==
    /\ Len(rd.frames) = 2
    /\ Len(PacketsPosted) = 1
    /\ PacketsPosted[1].type = "KeepAliveMsg"
    /\ Len(rd.buf) >= BGP_PACKET_HEADER_LEN
    /\ rd.errs = 1
    /\ rd.task = "Running"

\* ------------------------------------------------------------------------
\* Properties of the parser (SpecParser)
\* ------------------------------------------------------------------------
\* a call of parse has just run
ParseCalled == pc.code = "Call" /\ pc'.code # "Idle" /\ pc'.code # "Match"

\* the types fed so far, the greatest of them, and the candidates having it
FedTypes == {pc.fed[i].type : i \in 1..Len(pc.fed)}

FedBest == CHOOSE t \in FedTypes : \A u \in FedTypes : u <= t

FedHits == {i \in 1..Len(pc.fed) : pc.fed[i].type = FedBest}

FedFirst == CHOOSE i \in FedHits : \A j \in FedHits : i <= j

MatchFold ==
    pc.code = "Match" =>
       /\ pc.m.matched_type = FedBest
       /\ FedBest = MatchTypeNone => pc.m = MatchNew
       /\ FedBest # MatchTypeNone =>
             /\ pc.m.count = Cardinality(FedHits)
             /\ pc.m.matched_entry = pc.fed[FedFirst].entry
             /\ pc.m.pos = pc.fed[FedFirst].pos

NoneChangesNothing ==
    (pc'.code = "Match" /\ pc' # pc /\ pc'.fed[Len(pc'.fed)].type = MatchTypeNone)
       => pc'.m = TheMatch

SortedByName(comps) ==
    \A i, j \in 1..Len(comps) : i < j => Rank(comps[i]) <= Rank(comps[j])

CountDecides ==
    ParseCalled =>
       /\ pc'.code = "Nomatch" <=> pc'.count = 0
       /\ pc'.code = "Ambiguous" <=> pc'.count > 1
       /\ pc'.code = "Ambiguous" => SortedByName(pc'.comps)

KeyCount == Len(Schema[pc.entry].key)

KeyStep ==
    (ParseCalled /\ pc'.count = 1 /\ pc.s.ymatch = "Key") =>
       /\ pc'.s.index = pc.s.index + 1
       /\ pc'.s.ymatch = "KeyMatched" <=> pc'.s.index = KeyCount
       /\ pc'.s.ymatch = "Key" <=> pc'.s.index < KeyCount
       /\ pc.input # <<>> /\ pc'.input = Tail(pc.input)

KeyModeEntered ==
    (ParseCalled /\ pc'.count = 1 /\ pc.s.ymatch \in {"Dir", "DirMatched", "KeyMatched"}
        /\ Schema[pc'.mx.matched_entry].key # <<>>) =>
       /\ pc'.s.ymatch = "Key"
       /\ pc'.s.index = 0

\* C26: matching a list with k >= 1 keys enters Key mode with index 0; each
\* matched key token adds one to index and is consumed, the mode stays Key
\* while index < k and is KeyMatched exactly when index is k
C26_KeyTokensCounted == [][KeyStep /\ KeyModeEntered]_all_vars

\* what the input of a call leaves behind the matched token
Unconsumed == SubSeq(pc.input, pc'.mx.pos + 1, Len(pc.input))

SuccessOnlyIfComplete ==
    (ParseCalled /\ pc'.code = "Success") =>
       /\ pc'.count = 1
       /\ Unconsumed = <<>>
       /\ pc'.input = <<>>
       /\ pc'.s.paths # <<>>
       /\ pc'.s.ymatch \in {"DirMatched", "KeyMatched", "LeafMatched", "LeafListMatched"}
       /\ pc'.mx.matched_type # MatchTypeIncomplete

IncompleteExactly ==
    ParseCalled =>
       (pc'.code = "Incomplete" <=>
           /\ pc'.count = 1
           /\ Unconsumed = <<>>
           /\ \/ pc'.s.ymatch \notin {"DirMatched", "KeyMatched", "LeafMatched",
                                      "LeafListMatched"}
              \/ pc'.mx.matched_type = MatchTypeIncomplete)

\* C27: parse returns Success only with the whole input consumed, a
\* CommandPath emitted, a complete final YangMatch and a last match type other
\* than Incomplete; it returns Incomplete exactly when the input ends after a
\* unique match with the YangMatch not complete or the match type Incomplete
C27_SuccessAndIncomplete == [][SuccessOnlyIfComplete /\ IncompleteExactly]_all_vars

\* `set router bgp 65001 hold 180` has been parsed to Success over the tree
\* that holds it
C27_Witness ==
    /\ pc.code = "Success"
    /\ pc.line = <<"set", "router", "bgp", "65001", "hold", "180">>
    /\ pc.tree # {}
    /\ pc.input = <<>>
    /\ pc.s.ymatch = "LeafMatched"
    /\ Len(pc.s.paths) = 6

\* the name of the first path element of the command
PathHead == IF pc.s.paths = <<>> THEN "" ELSE pc.s.paths[1].name

\* C28: the flags set, delete and show of the parse state are true only when
\* the first path element is the keyword set, delete or show respectively
C28_FlagsOnlyFromPathHead ==
    pc.code \notin {"Idle", "Match"} =>
       /\ pc.s.set => PathHead = "set"
       /\ pc.s.delete => PathHead = "delete"
       /\ pc.s.show => PathHead = "show"

\* C29: every recursive call of parse is on a strictly shorter input than the
\* call that makes it
C29_RecursionOnShorterInput ==
    [][(ParseCalled /\ pc'.code = "Call") => Len(pc'.input) < Len(pc.input)]_all_vars

\* ------------------------------------------------------------------------
\* The hold timer and the keepalive timer (Spec)
\* ------------------------------------------------------------------------
\* a step arms or cancels the hold timer or the keepalive timer
SessionTimerChanged ==
    \/ Armed(timer'.hold_timer) # Armed(timer.hold_timer)
    \/ Armed(timer'.keepalive) # Armed(timer.keepalive)

\* the event being handled is an Open that fsm_bgp_open accepts
AcceptsOpen ==
    /\ HandleEvent
    /\ Head(mailbox).type = "BGPOpen"
    /\ state = "OpenSent"
    /\ Head(mailbox).asn = peer_as
    /\ Head(mailbox).bgp_id = address

\* the event being handled is Stop or takes the peer into Idle: fsm_stop runs
RunsStop ==
    /\ HandleEvent
    /\ \/ Head(mailbox).type = "Stop"
       \/ state # "Idle" /\ state' = "Idle"

OnlyOpenAndStopChange ==
    SessionTimerChanged =>
       \/ /\ AcceptsOpen
          /\ Armed(timer'.hold_timer)
          /\ Armed(timer'.keepalive)
       \/ /\ RunsStop
          /\ ~Armed(timer'.hold_timer)
          /\ ~Armed(timer'.keepalive)

\* C31: in every reachable state the hold timer is armed iff the keepalive
\* timer is armed; both are armed when an Open is accepted, both are cancelled
\* when fsm_stop runs, and no other step arms or cancels either
C31_HoldIffKeepalive ==
    /\ [](Armed(timer.hold_timer) <=> Armed(timer.keepalive))
    /\ [][OnlyOpenAndStopChange]_all_vars

\* a session lost by ConnFail in Established: the peer is in Active with both
\* timers still armed
C31_Witness ==
    /\ last_event.type = "ConnFail"
    /\ prev_state = "Established"
    /\ state = "Active"
    /\ Armed(timer.hold_timer)
    /\ Armed(timer.keepalive)

\* ------------------------------------------------------------------------
\* The key values of a list in the CommandPaths (SpecParser)
\* ------------------------------------------------------------------------
\* the j-th path element is a list with keys that the command has entered
ListAt(j) ==
    /\ pc.s.paths[j].ymatch = "Key"
    /\ pc.s.paths[j].name \in DOMAIN Schema
    /\ has_key(Schema[pc.s.paths[j].name])

\* the value typed for the i-th key of the list at j is the name of a path
\* element whose key is the name of the key leaf
KeyValueKept(j, i) ==
    /\ j + i <= Len(pc.line)
    /\ \E q \in 1..Len(pc.s.paths) :
          /\ pc.s.paths[q].key = Schema[pc.s.paths[j].name].key[i]
          /\ pc.s.paths[q].name = pc.line[j + i]

\* C32: after a command has parsed to Success through a list with k keys, the
\* CommandPaths hold the value typed for each of the k keys as the name of an
\* element whose key is the key leaf's name
C32_KeyValuesInPaths ==
    pc.code = "Success" =>
       \A j \in 1..Len(pc.s.paths) :
          ListAt(j) =>
             \A i \in 1..Len(Schema[pc.s.paths[j].name].key) : KeyValueKept(j, i)

====
